---- MODULE Spec2Model ----
(***************************************************************************)
(* covid_analyzer.py: CovidDataAnalyzer (fetch / process / report / JSON), *)
(* the Flask handler get_covid_data built by create_app on one shared      *)
(* analyzer, and the command line entry point main.                        *)
(*                                                                         *)
(* Calendar dates are the days 1..MaxDate; the feed's "data" column holds  *)
(* timestamps, TicksPerDay of them per day.  Region names are 1..NumRegions*)
(* in their lexicographic order.  Case counts are integers (the feed's     *)
(* totale_casi are integers, on which int() is exact).                     *)
(***************************************************************************)
EXTENDS Integers, Sequences, FiniteSets, TLC

VARIABLES analyzer, today, main, handlers, nreq, call

vars == <<analyzer, today, main, handlers, nreq, call>>

(***************************** bounds **************************************)
MaxDate == 2
TicksPerDay == 2
NumRegions == 2
MaxCases == 1
MaxRecords == 3
NumWorkers == 2
MaxRequests == 2

(************************* values of the program ***************************)
\* Python's None in a date field (dates are 1..MaxDate).
None == 0
\* A null denominazione_regione (NaN in the DataFrame).
NoRegion == 0
\* A totale_casi that pd.to_numeric cannot parse.
NonNumeric == -1

Dates == 1..MaxDate
Regions == 1..NumRegions
Timestamps == TicksPerDay..(TicksPerDay * (MaxDate + 1) - 1)

\* A string handed in as --date_start / ?date_start=...: absent (None), a
\* well-formed YYYY-MM-DD string, or a string strptime rejects.
NoArg == [kind |-> "None", day |-> None]
Garbage == [kind |-> "garbage", day |-> None]
DateStr(d) == [kind |-> "Y-m-d", day |-> d]
ArgStrings == {NoArg, Garbage} \cup {DateStr(d) : d \in Dates}

\* Python truthiness of an argument string: None is falsy.
Truthy(s) == s.kind # "None"
\* datetime.strptime(s, '%Y-%m-%d') raises ValueError unless s is well formed.
RaisesValueError(s) == s.kind # "Y-m-d"
\* datetime.strptime(s, '%Y-%m-%d').date()
strptime(s) == s.day

RawRecords ==
  [denominazione_regione : {NoRegion} \cup Regions,
   totale_casi : {NonNumeric} \cup (0..MaxCases),
   data : Timestamps]

\* self.regions_data: None, or the list of (region, cases) tuples.
NoneData == [none |-> TRUE, rows |-> <<>>]
ListData(rows) == [none |-> FALSE, rows |-> rows]

(************************ CovidDataAnalyzer ********************************)
\* CovidDataAnalyzer.__init__
NewAnalyzer == [date_start |-> None, date_end |-> None, regions_data |-> NoneData]

\* pd.to_numeric(..., errors='coerce').fillna(0)
to_numeric(x) == IF x = NonNumeric THEN 0 ELSE x

\* pd.to_datetime(...).dt.date: the calendar day of a timestamp
to_date(ts) == ts \div TicksPerDay

\* lines 66-72: drop rows without region, coerce totale_casi, convert data
Clean(df) ==
  LET kept == SelectSeq(df, LAMBDA r : r.denominazione_regione # NoRegion)
  IN  [i \in 1..Len(kept) |->
         [denominazione_regione |-> kept[i].denominazione_regione,
          totale_casi |-> to_numeric(kept[i].totale_casi),
          data |-> to_date(kept[i].data)]]

\* lines 74-75
FilterStart(df, date_start) ==
  IF date_start # None
    THEN SelectSeq(df, LAMBDA r : r.data >= date_start)
    ELSE df

\* FilterEnd with the end day left out of the range
FilterEnd_exclusive(df, date_end) ==
  IF date_end # None
    THEN SelectSeq(df, LAMBDA r : r.data < date_end)
    ELSE df

\* lines 77-78
FilterEnd(df, date_end) ==
  IF date_end # None
    THEN SelectSeq(df, LAMBDA r : r.data <= date_end)
    ELSE df

RECURSIVE SumCases(_)
SumCases(df) ==
  IF df = <<>> THEN 0 ELSE Head(df).totale_casi + SumCases(Tail(df))

RECURSIVE AscendingKeys(_)
AscendingKeys(S) ==
  IF S = {} THEN <<>>
  ELSE LET m == CHOOSE x \in S : \A y \in S : x <= y
       IN  <<m>> \o AscendingKeys(S \ {m})

\* line 81: groupby('denominazione_regione')['totale_casi'].sum().reset_index()
\* (groupby orders the groups by key)
groupby_sum(df) ==
  LET keys == AscendingKeys({df[i].denominazione_regione : i \in 1..Len(df)})
  IN  [k \in 1..Len(keys) |->
         <<keys[k],
           SumCases(SelectSeq(df, LAMBDA r : r.denominazione_regione = keys[k]))>>]

\* RowBefore with the cases ascending
RowBefore_ascending(a, b) == a[2] < b[2] \/ (a[2] = b[2] /\ a[1] < b[1])

\* by=['totale_casi', 'denominazione_regione'], ascending=[False, True]
RowBefore(a, b) == a[2] > b[2] \/ (a[2] = b[2] /\ a[1] < b[1])

RECURSIVE InsertRow(_, _)
InsertRow(row, sorted) ==
  IF sorted = <<>> THEN <<row>>
  ELSE IF RowBefore(row, Head(sorted)) THEN <<row>> \o sorted
  ELSE <<Head(sorted)>> \o InsertRow(row, Tail(sorted))

\* lines 84-87: a stable sort on the two keys
RECURSIVE sort_values(_)
sort_values(rows) ==
  IF rows = <<>> THEN <<>>
  ELSE InsertRow(rows[Len(rows)], sort_values(SubSeq(rows, 1, Len(rows) - 1)))

\* lines 80-90 on an already filtered frame
Aggregate(df) == sort_values(groupby_sum(df))

\* df['denominazione_regione'] on a frame built from an empty list: KeyError
RaisesKeyError(df) == df = <<>>

\* CovidDataAnalyzer.process_data as a function of the frame and the range
process_data(df, date_start, date_end) ==
  Aggregate(FilterEnd(FilterStart(Clean(df), date_start), date_end))


\* One printed line: what it says and the values formatted into it.
Line(kind, args) == [kind |-> kind, args |-> args]

\* Python's "not self.regions_data": None and the empty list are both falsy
Falsy(regions_data) == regions_data.none \/ regions_data.rows = <<>>

\* lines 103-105: the header of a non-empty report
ReportHeader(a) ==
  <<Line("COVID-19 Cases by Region (Data for)", <<a.date_start>>),
    Line("Region -> Total Cases", <<>>),
    Line("-" , <<>>)>>

\* lines 97-100: the line of an empty report
NoDataLine(a) ==
  IF a.date_start = a.date_end
    THEN Line("No data available (Data for)", <<a.date_start>>)
    ELSE Line("No data available (Data for ->)", <<a.date_start, a.date_end>>)

RECURSIVE SumRows(_)
SumRows(rows) == IF rows = <<>> THEN 0 ELSE Head(rows)[2] + SumRows(Tail(rows))

\* CovidDataAnalyzer.print_report: the lines it prints
print_report(a) ==
  IF Falsy(a.regions_data)
    THEN <<NoDataLine(a)>>
    ELSE ReportHeader(a)
         \o [i \in 1..Len(a.regions_data.rows) |->
               Line("region -> cases", a.regions_data.rows[i])]
         \o <<Line("-", <<>>), Line("Total ->", <<SumRows(a.regions_data.rows)>>)>>

\* A JSON body: {"regions": [...]} or {"error": "..."}
RegionsBody(rows) == [kind |-> "regions", error |-> "", regions |-> rows]
ErrorBody(msg) == [kind |-> "error", error |-> msg, regions |-> <<>>]

\* CovidDataAnalyzer.get_json_data
get_json_data(regions_data) ==
  IF Falsy(regions_data)
    THEN ErrorBody("No data available")
    ELSE RegionsBody(regions_data.rows)

\* CovidDataAnalyzer.export_to_excel(output_file): the line it prints.
\* named: an output file was given; writes: df.to_excel succeeds.
export_to_excel(a, named, writes) ==
  IF Falsy(a.regions_data) THEN Line("No data available.", <<>>)
  ELSE IF ~named /\ a.date_end = None THEN Line("Error exporting to Excel", <<>>)
  ELSE IF ~writes THEN Line("Error exporting to Excel", <<>>)
  ELSE Line("Data exported to", <<>>)

(********************* state outside the run at hand ***********************)
NoBody == ErrorBody("")
NoResponse == [status |-> 0, body |-> NoBody]
NoParams == [date_start |-> NoArg, date_end |-> NoArg]

\* A worker thread of the server with no request in hand
IdleHandler ==
  [pc |-> "idle", params |-> NoParams, date_start |-> NoArg, date_end |-> NoArg,
   t0 |-> None, success |-> "unset", all_data |-> <<>>, df |-> <<>>,
   response |-> NoResponse]

NoArgs ==
  [date_start |-> NoArg, date_end |-> NoArg, file |-> FALSE, excel |-> FALSE,
   excel_output |-> FALSE, server |-> FALSE]

\* main() before its first statement, with the parsed command line
NewMain(args) ==
  [pc |-> "l261", args |-> args, success |-> "unset", df |-> <<>>,
   status |-> 0, stdout |-> <<>>]

NoMain == [NewMain(NoArgs) EXCEPT !.pc = "none"]
NoCall == [pc |-> "none", df |-> <<>>, stdout |-> <<>>, json |-> NoBody]

Workers == 1..NumWorkers

(************** the analyzer's methods called on their own *****************)
\* A call of process_data on a fresh analyzer with any range and any frame of
\* up to MaxRecords records
InitAgg ==
  /\ analyzer \in [date_start : {None} \cup Dates, date_end : {None} \cup Dates,
                   regions_data : {NoneData}]
  /\ \E n \in 0..MaxRecords :
       \E df \in [1..n -> RawRecords] :
         call = [pc |-> "ready", df |-> df, stdout |-> <<>>, json |-> NoBody]
  /\ today = 1
  /\ main = NoMain
  /\ handlers = [w \in Workers |-> IdleHandler]
  /\ nreq = 0

\* analyzer.process_data(df)
CallProcessData ==
  /\ call.pc = "ready"
  /\ IF RaisesKeyError(call.df)
       THEN /\ call' = [call EXCEPT !.pc = "KeyError"]
            /\ UNCHANGED analyzer
       ELSE /\ analyzer' = [analyzer EXCEPT !.regions_data =
                 ListData(process_data(call.df, analyzer.date_start, analyzer.date_end))]
            /\ call' = [call EXCEPT !.pc = "processed"]
  /\ UNCHANGED <<today, main, handlers, nreq>>

\* analyzer.print_report()
CallPrintReport ==
  /\ call.pc = "processed"
  /\ call' = [call EXCEPT !.pc = "printed", !.stdout = print_report(analyzer)]
  /\ UNCHANGED <<analyzer, today, main, handlers, nreq>>

\* analyzer.get_json_data()
CallGetJsonData ==
  /\ call.pc = "processed"
  /\ call' = [call EXCEPT !.pc = "json", !.json = get_json_data(analyzer.regions_data)]
  /\ UNCHANGED <<analyzer, today, main, handlers, nreq>>

NextAgg == CallProcessData \/ CallPrintReport \/ CallGetJsonData

SpecAgg == InitAgg /\ [][NextAgg]_vars


(******************************* main() ************************************)
\* The ways fetch_data / load_data_from_file report a failure (print, return
\* False): requests' RequestException, a status other than 200, a
\* JSONDecodeError; a missing file, any exception while loading.
FetchFailures == {"Error fetching data", "Error: Unable to retrieve data",
                  "Error parsing JSON data"}
LoadFailures == {"Error: File not found", "Error loading data from file"}

\* What the feed or a local file can hold when it is read.
Feeds ==
  {<<>>,
   <<[denominazione_regione |-> 1, totale_casi |-> 1, data |-> TicksPerDay]>>,
   <<[denominazione_regione |-> 1, totale_casi |-> 1, data |-> TicksPerDay],
     [denominazione_regione |-> 2, totale_casi |-> 1, data |-> TicksPerDay * MaxDate + 1]>>}

Args ==
  [date_start : ArgStrings, date_end : ArgStrings, file : BOOLEAN,
   excel : BOOLEAN, excel_output : BOOLEAN, server : BOOLEAN]

Init ==
  /\ analyzer = NewAnalyzer
  /\ today \in Dates
  /\ main \in {NewMain(args) : args \in Args}
  /\ handlers = [w \in Workers |-> IdleHandler]
  /\ nreq = 0
  /\ call = NoCall

\* SysExit that prints and leaves with status 0
SysExit_status0(m, msg, code) ==
  [m EXCEPT !.pc = "exited", !.status = 0, !.stdout = Append(@, Line(msg, <<>>))]

\* sys.exit(code) after print(msg)
SysExit(m, msg, code) ==
  [m EXCEPT !.pc = "exited", !.status = code, !.stdout = Append(@, Line(msg, <<>>))]

\* main returning: the interpreter exits with status 0
ReturnFromMain(m) == [m EXCEPT !.pc = "exited", !.status = 0]

\* An exception nobody catches: traceback, and the interpreter exits with 1
Uncaught(m, exc) ==
  [m EXCEPT !.pc = "exited", !.status = 1, !.stdout = Append(@, Line(exc, <<>>))]

\* date.today() moves on while the program runs
Tick ==
  /\ today < MaxDate
  /\ today' = today + 1
  /\ UNCHANGED <<analyzer, main, handlers, nreq, call>>

\* lines 261-266
MainDateStart ==
  /\ main.pc = "l261"
  /\ IF Truthy(main.args.date_start)
       THEN IF RaisesValueError(main.args.date_start)
              THEN /\ main' = SysExit(main, "Error: The date_start format is incorrect", 1)
                   /\ UNCHANGED analyzer
              ELSE /\ analyzer' = [analyzer EXCEPT !.date_start = strptime(main.args.date_start)]
                   /\ main' = [main EXCEPT !.pc = "l268"]
       ELSE /\ main' = [main EXCEPT !.pc = "l268"]
            /\ UNCHANGED analyzer
  /\ UNCHANGED <<today, handlers, nreq, call>>

\* lines 268-273
MainDateEnd ==
  /\ main.pc = "l268"
  /\ IF Truthy(main.args.date_end)
       THEN IF RaisesValueError(main.args.date_end)
              THEN /\ main' = SysExit(main, "Error: The date_end format is incorrect", 1)
                   /\ UNCHANGED analyzer
              ELSE /\ analyzer' = [analyzer EXCEPT !.date_end = strptime(main.args.date_end)]
                   /\ main' = [main EXCEPT !.pc = "l276"]
       ELSE /\ main' = [main EXCEPT !.pc = "l276"]
            /\ UNCHANGED analyzer
  /\ UNCHANGED <<today, handlers, nreq, call>>

\* line 276: today is put in only when neither date was passed
MainNeedsDefaults(args) == ~Truthy(args.date_start) /\ ~Truthy(args.date_end)

\* lines 276-277
MainDefaultEnd ==
  /\ main.pc = "l276"
  /\ IF MainNeedsDefaults(main.args)
       THEN /\ analyzer' = [analyzer EXCEPT !.date_end = today]
            /\ main' = [main EXCEPT !.pc = "l278"]
       ELSE /\ main' = [main EXCEPT !.pc = "l280"]
            /\ UNCHANGED analyzer
  /\ UNCHANGED <<today, handlers, nreq, call>>

\* line 278
MainDefaultStart ==
  /\ main.pc = "l278"
  /\ analyzer' = [analyzer EXCEPT !.date_start = today]
  /\ main' = [main EXCEPT !.pc = "l280"]
  /\ UNCHANGED <<today, handlers, nreq, call>>

\* lines 280-281: the range main refuses
MainInverted(a) ==
  a.date_end # None /\ a.date_start # None /\ a.date_start > a.date_end

\* lines 280-283
MainCheckRange ==
  /\ main.pc = "l280"
  /\ main' = IF MainInverted(analyzer)
               THEN SysExit(main, "Error: The date_start is greater than date_end", 1)
               ELSE [main EXCEPT !.pc = "l286"]
  /\ UNCHANGED <<analyzer, today, handlers, nreq, call>>

\* lines 286-289 up to the call of process_data (lines 36-43, 172-180): the
\* source is read, or the failure is printed and success = False
MainLoad ==
  /\ main.pc = "l286"
  /\ \/ \E msg \in IF main.args.file THEN LoadFailures ELSE FetchFailures :
          main' = [main EXCEPT !.pc = "l291", !.success = "False",
                               !.stdout = Append(@, Line(msg, <<>>))]
     \/ \E data \in Feeds :
          main' = [main EXCEPT !.pc = "process", !.df = data]
  /\ UNCHANGED <<analyzer, today, handlers, nreq, call>>

\* process_data(df) called from load_data_from_file (line 182, any exception
\* caught at line 184) or from fetch_data (line 45, a KeyError is not caught)
MainProcess ==
  /\ main.pc = "process"
  /\ IF RaisesKeyError(main.df)
       THEN /\ main' = IF main.args.file
                         THEN [main EXCEPT !.pc = "l291", !.success = "False", !.df = <<>>,
                                 !.stdout = Append(@, Line("Error loading data from file", <<>>))]
                         ELSE Uncaught(main, "KeyError")
            /\ UNCHANGED analyzer
       ELSE /\ analyzer' = [analyzer EXCEPT !.regions_data =
                 ListData(process_data(main.df, analyzer.date_start, analyzer.date_end))]
            /\ main' = [main EXCEPT !.pc = "l291", !.success = "True", !.df = <<>>]
  /\ UNCHANGED <<today, handlers, nreq, call>>

\* lines 291-292
MainCheckSuccess ==
  /\ main.pc = "l291"
  /\ main' = IF main.success # "True"
               THEN ReturnFromMain(main)
               ELSE [main EXCEPT !.pc = "l295"]
  /\ UNCHANGED <<analyzer, today, handlers, nreq, call>>

\* line 295
MainReport ==
  /\ main.pc = "l295"
  /\ main' = [main EXCEPT !.pc = "l298", !.stdout = @ \o print_report(analyzer)]
  /\ UNCHANGED <<analyzer, today, handlers, nreq, call>>

\* lines 298-299
MainExport ==
  /\ main.pc = "l298"
  /\ IF main.args.excel
       THEN \E writes \in BOOLEAN :
              main' = [main EXCEPT !.pc = "l302",
                         !.stdout = Append(@, export_to_excel(analyzer, main.args.excel_output, writes))]
       ELSE main' = [main EXCEPT !.pc = "l302"]
  /\ UNCHANGED <<analyzer, today, handlers, nreq, call>>

\* lines 302-306: app.run never returns; the command line and the printed
\* report are not read again
MainServe ==
  /\ main.pc = "l302"
  /\ main' = IF main.args.server
               THEN [NoMain EXCEPT !.pc = "serving"]
               ELSE ReturnFromMain(main)
  /\ UNCHANGED <<analyzer, today, handlers, nreq, call>>

MainStep ==
  \/ MainDateStart \/ MainDateEnd \/ MainDefaultEnd \/ MainDefaultStart
  \/ MainCheckRange \/ MainLoad \/ MainProcess \/ MainCheckSuccess
  \/ MainReport \/ MainExport \/ MainServe

NextCli == MainStep \/ Tick

SpecCli == Init /\ [][NextCli]_vars


(*********************** GET /covid-data ***********************************)
Params == [date_start : ArgStrings, date_end : ArgStrings]

\* line 206: request.args.get('date_start')
ArgsDateStart(params) == params.date_start

\* line 207: date_end is read from the parameter named 'date_start'
ArgsDateEnd(params) == params.date_start

\* HandlerNeedsDefaults with today put in on every request
HandlerNeedsDefaults_always(date_start, date_end) == TRUE

\* line 210: today is put in when either local is missing
HandlerNeedsDefaults(date_start, date_end) == ~Truthy(date_start) \/ ~Truthy(date_end)

\* jsonify(body), status
Respond(h, status, body) ==
  [h EXCEPT !.pc = "done", !.response = [status |-> status, body |-> body]]

\* lines 229-237: the response to fetch_data returning False
FetchFailed(date_start, date_end) ==
  IF Truthy(date_start) \/ Truthy(date_end)
    THEN [status |-> 400, body |-> ErrorBody("Failed to fetch data.")]
    ELSE [status |-> 500, body |-> ErrorBody("Failed to fetch data for current date")]

\* A request arrives at worker w: lines 204-207.  t0 is the date on arrival.
\* (The limiter of lines 200 and 203 turns requests away before the handler
\* runs; MaxRequests bounds how many requests are let in.)
HandleBegin(w) ==
  /\ main.pc = "serving"
  /\ handlers[w].pc = "idle"
  /\ nreq < MaxRequests
  /\ \E params \in Params :
       handlers' = [handlers EXCEPT ![w] =
         [IdleHandler EXCEPT !.pc = "l210", !.params = params,
            !.date_start = ArgsDateStart(params), !.date_end = ArgsDateEnd(params),
            !.t0 = today]]
  /\ nreq' = nreq + 1
  /\ UNCHANGED <<analyzer, today, main, call>>

\* lines 210-211
HandleDefaultEnd(w) ==
  /\ handlers[w].pc = "l210"
  /\ IF HandlerNeedsDefaults(handlers[w].date_start, handlers[w].date_end)
       THEN /\ analyzer' = [analyzer EXCEPT !.date_end = today]
            /\ handlers' = [handlers EXCEPT ![w].pc = "l212"]
       ELSE /\ handlers' = [handlers EXCEPT ![w].pc = "l214"]
            /\ UNCHANGED analyzer
  /\ UNCHANGED <<today, main, nreq, call>>

\* line 212
HandleDefaultStart(w) ==
  /\ handlers[w].pc = "l212"
  /\ analyzer' = [analyzer EXCEPT !.date_start = today]
  /\ handlers' = [handlers EXCEPT ![w].pc = "l214"]
  /\ UNCHANGED <<today, main, nreq, call>>

\* lines 214-218 (the exception is answered at lines 240-241)
HandleDateStart(w) ==
  /\ handlers[w].pc = "l214"
  /\ IF Truthy(handlers[w].date_start)
       THEN IF RaisesValueError(handlers[w].date_start)
              THEN /\ handlers' = [handlers EXCEPT ![w] = Respond(@, 400,
                        ErrorBody("Error: The date_start format is incorrect"))]
                   /\ UNCHANGED analyzer
              ELSE /\ analyzer' = [analyzer EXCEPT !.date_start = strptime(handlers[w].date_start)]
                   /\ handlers' = [handlers EXCEPT ![w].pc = "l220"]
       ELSE /\ handlers' = [handlers EXCEPT ![w].pc = "l220"]
            /\ UNCHANGED analyzer
  /\ UNCHANGED <<today, main, nreq, call>>

\* lines 220-224
HandleDateEnd(w) ==
  /\ handlers[w].pc = "l220"
  /\ IF Truthy(handlers[w].date_end)
       THEN IF RaisesValueError(handlers[w].date_end)
              THEN /\ handlers' = [handlers EXCEPT ![w] = Respond(@, 400,
                        ErrorBody("Error: The date_end format is incorrect"))]
                   /\ UNCHANGED analyzer
              ELSE /\ analyzer' = [analyzer EXCEPT !.date_end = strptime(handlers[w].date_end)]
                   /\ handlers' = [handlers EXCEPT ![w].pc = "l226"]
       ELSE /\ handlers' = [handlers EXCEPT ![w].pc = "l226"]
            /\ UNCHANGED analyzer
  /\ UNCHANGED <<today, main, nreq, call>>

\* lines 226-227; comparing with None raises TypeError, answered like the rest
HandleCheckRange(w) ==
  /\ handlers[w].pc = "l226"
  /\ handlers' = [handlers EXCEPT ![w] =
       IF analyzer.date_start = None \/ analyzer.date_end = None
         THEN Respond(@, 400, ErrorBody("TypeError"))
       ELSE IF analyzer.date_start > analyzer.date_end
         THEN Respond(@, 400, ErrorBody("Error: The date_start is greater than date_end"))
       ELSE [@ EXCEPT !.pc = "l229"]]
  /\ UNCHANGED <<analyzer, today, main, nreq, call>>

\* lines 229-237 with fetch_data's lines 36-56 and process_data's lines 66-72:
\* the feed is read and cleaned, or fetch_data returns False, or the KeyError
\* of an empty feed reaches line 240
HandleFetch(w) ==
  /\ handlers[w].pc = "l229"
  /\ \/ handlers' = [handlers EXCEPT ![w] =
          [@ EXCEPT !.pc = "done", !.success = "False",
                    !.response = FetchFailed(handlers[w].date_start, handlers[w].date_end)]]
     \/ \E data \in Feeds :
          handlers' = [handlers EXCEPT ![w] =
            IF RaisesKeyError(data)
              THEN Respond(@, 400, ErrorBody("KeyError"))
              ELSE [@ EXCEPT !.pc = "l74", !.all_data = data, !.df = Clean(data)]]
  /\ UNCHANGED <<analyzer, today, main, nreq, call>>

\* lines 74-75
HandleFilterStart(w) ==
  /\ handlers[w].pc = "l74"
  /\ handlers' = [handlers EXCEPT ![w] =
       [@ EXCEPT !.pc = "l77", !.df = FilterStart(@, analyzer.date_start)]]
  /\ UNCHANGED <<analyzer, today, main, nreq, call>>

\* lines 77-78
HandleFilterEnd(w) ==
  /\ handlers[w].pc = "l77"
  /\ handlers' = [handlers EXCEPT ![w] =
       [@ EXCEPT !.pc = "l81", !.df = FilterEnd(@, analyzer.date_end)]]
  /\ UNCHANGED <<analyzer, today, main, nreq, call>>

\* lines 80-90, then fetch_data returns True (line 46)
HandleStore(w) ==
  /\ handlers[w].pc = "l81"
  /\ analyzer' = [analyzer EXCEPT !.regions_data = ListData(Aggregate(handlers[w].df))]
  /\ handlers' = [handlers EXCEPT ![w] =
       [@ EXCEPT !.pc = "l154", !.success = "True", !.df = <<>>]]
  /\ UNCHANGED <<today, main, nreq, call>>

\* line 239 calling get_json_data: lines 154-155
HandleJsonCheck(w) ==
  /\ handlers[w].pc = "l154"
  /\ handlers' = [handlers EXCEPT ![w] =
       IF Falsy(analyzer.regions_data)
         THEN Respond(@, 200, get_json_data(analyzer.regions_data))
         ELSE [@ EXCEPT !.pc = "l157"]]
  /\ UNCHANGED <<analyzer, today, main, nreq, call>>

\* lines 157-159: regions_data is read again for the list
HandleJsonBuild(w) ==
  /\ handlers[w].pc = "l157"
  /\ handlers' = [handlers EXCEPT ![w] =
       Respond(@, 200, RegionsBody(analyzer.regions_data.rows))]
  /\ UNCHANGED <<analyzer, today, main, nreq, call>>

\* The response is sent and the worker is free again
HandleEnd(w) ==
  /\ handlers[w].pc = "done"
  /\ handlers' = [handlers EXCEPT ![w] = IdleHandler]
  /\ UNCHANGED <<analyzer, today, main, nreq, call>>

HandleStep(w) ==
  \/ HandleDefaultEnd(w) \/ HandleDefaultStart(w) \/ HandleDateStart(w)
  \/ HandleDateEnd(w) \/ HandleCheckRange(w) \/ HandleFetch(w)
  \/ HandleFilterStart(w) \/ HandleFilterEnd(w) \/ HandleStore(w)
  \/ HandleJsonCheck(w) \/ HandleJsonBuild(w) \/ HandleEnd(w)

\* The server's threads take requests as they come
Next ==
  \/ MainStep
  \/ Tick
  \/ \E w \in Workers : HandleBegin(w) \/ HandleStep(w)

Spec == Init /\ [][Next]_vars

\* Requests handled strictly one at a time
OthersIdle(w) == \A v \in Workers \ {w} : handlers[v].pc = "idle"

HandleBeginSeq(w) == OthersIdle(w) /\ HandleBegin(w)

NextSeq ==
  \/ MainStep
  \/ Tick
  \/ \E w \in Workers : HandleBeginSeq(w) \/ HandleStep(w)

SpecSeq == Init /\ [][NextSeq]_vars


(******************************* claims ************************************)
Last(seq) == seq[Len(seq)]

ValidationErrors ==
  {"Error: The date_start format is incorrect",
   "Error: The date_end format is incorrect",
   "Error: The date_start is greater than date_end"}

\* The bound an argument asks for: its date, or the current date when omitted
Resolved(s) == IF Truthy(s) THEN strptime(s) ELSE today

\* Both bounds are dates or omitted, and the start asked for is after the end
InvertedRequest(p) ==
  /\ p.date_start.kind # "garbage"
  /\ p.date_end.kind # "garbage"
  /\ Resolved(p.date_start) > Resolved(p.date_end)

ExactlyOne(p) == Truthy(p.date_start) # Truthy(p.date_end)

MainFetched == main.pc = "process" \/ main.success # "unset"

HandlerFetched(h) == h.pc \in {"l74", "l77", "l81"} \/ h.success # "unset"

\* The ranges a request resolves to when it is served alone: its date_start
\* for both bounds, or the current date read twice since it arrived
OwnRanges(h) ==
  IF Truthy(h.date_start)
    THEN {<<strptime(h.date_start), strptime(h.date_end)>>}
    ELSE {<<s, e>> \in Dates \X Dates : h.t0 <= e /\ e <= s /\ s <= today}

\* C1: under any interleaving of two requests, each request filters with its
\* own resolved range and answers with the result computed for that range
\* from the data it fetched.
C1_RequestScoped ==
  \A w \in Workers :
    LET h == handlers[w] IN
      /\ h.pc = "l74" => \E r \in OwnRanges(h) : analyzer.date_start = r[1]
      /\ h.pc = "l77" => \E r \in OwnRanges(h) : analyzer.date_end = r[2]
      /\ (h.pc = "done" /\ h.success = "True") =>
           \E r \in OwnRanges(h) :
             h.response =
               [status |-> 200,
                body |-> get_json_data(ListData(process_data(h.all_data, r[1], r[2])))]

\* C2: when the start asked for is after the end (an omitted bound being the
\* current date), no fetch runs and the run ends in the validation failure,
\* on the command line and on GET /covid-data.
C2_InvertedRangeRejected ==
  /\ InvertedRequest(main.args) =>
       /\ ~MainFetched
       /\ main.pc = "exited" =>
            (main.status # 0 /\ Last(main.stdout).kind \in ValidationErrors)
  /\ \A w \in Workers :
       LET h == handlers[w] IN
         (h.pc # "idle" /\ InvertedRequest(h.params)) =>
           /\ ~HandlerFetched(h)
           /\ h.pc = "done" =>
                (h.response.status = 400
                   /\ h.response.body.error = "Error: The date_start is greater than date_end")

\* C3: with exactly one of date_start / date_end supplied, when process_data
\* filters both bounds are dates: the supplied one as given, the other the
\* current date.
C3_BothBoundsConcrete ==
  /\ (main.pc = "process" /\ ExactlyOne(main.args)) =>
       /\ analyzer.date_start # None /\ analyzer.date_end # None
       /\ Truthy(main.args.date_start) =>
            (analyzer.date_start = strptime(main.args.date_start) /\ analyzer.date_end <= today)
       /\ Truthy(main.args.date_end) =>
            (analyzer.date_end = strptime(main.args.date_end) /\ analyzer.date_start <= today)
  /\ \A w \in Workers :
       LET h == handlers[w] IN
         (h.pc = "l74" /\ ExactlyOne(h.params)) =>
           /\ analyzer.date_start # None /\ analyzer.date_end # None
           /\ Truthy(h.params.date_start) =>
                /\ analyzer.date_start = strptime(h.params.date_start)
                /\ analyzer.date_end \in h.t0..today
           /\ Truthy(h.params.date_end) =>
                /\ analyzer.date_end = strptime(h.params.date_end)
                /\ analyzer.date_start \in h.t0..today

\* C4: a failed fetch on GET /covid-data (the dates supplied, if any, being
\* well formed) is answered 500 when no date parameter was supplied and 400
\* when date_start or date_end was.
C4_FetchFailureStatus ==
  \A w \in Workers :
    LET h == handlers[w] IN
      (h.pc = "done" /\ h.success = "False"
         /\ h.params.date_start.kind # "garbage" /\ h.params.date_end.kind # "garbage") =>
        h.response.status =
          IF Truthy(h.params.date_start) \/ Truthy(h.params.date_end) THEN 400 ELSE 500

\* C5: a successful fetch with no record in the range is answered 200 with
\* the body {"regions": []}, not with an error body.
C5_EmptyResultIsSuccess ==
  \A w \in Workers :
    LET h == handlers[w] IN
      (h.pc = "done" /\ h.success = "True" /\ analyzer.regions_data.rows = <<>>) =>
        h.response = [status |-> 200, body |-> RegionsBody(<<>>)]

Permute(df, p) == [i \in 1..Len(df) |-> df[p[i]]]

\* C6: the list process_data stores is ordered by total cases descending,
\* ties by region ascending, and is the same for every order of the input
\* records.
C6_SortedAndOrderIndependent ==
  call.pc = "processed" =>
    LET rows == analyzer.regions_data.rows IN
      /\ \A i \in 1..(Len(rows) - 1) :
           \/ rows[i][2] > rows[i + 1][2]
           \/ rows[i][2] = rows[i + 1][2] /\ rows[i][1] < rows[i + 1][1]
      /\ \A p \in Permutations(1..Len(call.df)) :
           process_data(Permute(call.df, p), analyzer.date_start, analyzer.date_end) = rows

\* A tie between two regions that came in against the order of their names
C6_Witness ==
  /\ call.pc = "processed"
  /\ analyzer.regions_data.rows = <<<<1, 1>>, <<2, 1>>>>
  /\ call.df[1].denominazione_regione = 2

\* The records of df that count: with a region, and a day in the range
Included(df, date_start, date_end) ==
  {i \in 1..Len(df) :
     /\ df[i].denominazione_regione # NoRegion
     /\ \E d \in Dates :
          /\ df[i].data \in (d * TicksPerDay)..((d + 1) * TicksPerDay - 1)
          /\ date_start # None => d >= date_start
          /\ date_end # None => d <= date_end}

RECURSIVE SumOver(_, _)
SumOver(I, df) ==
  IF I = {} THEN 0
  ELSE LET i == CHOOSE x \in I : TRUE
       IN  (IF df[i].totale_casi = NonNumeric THEN 0 ELSE df[i].totale_casi)
             + SumOver(I \ {i}, df)

\* C7: process_data stores exactly one entry per region occurring among the
\* records with a region and a date in the inclusive range, its total the
\* sum of their totale_casi (non-numeric as 0); the totals add up to the sum
\* over all those records.
C7_OneEntryPerRegionWithSum ==
  call.pc = "processed" =>
    LET rows == analyzer.regions_data.rows
        inc == Included(call.df, analyzer.date_start, analyzer.date_end)
    IN  /\ {rows[k][1] : k \in 1..Len(rows)} = {call.df[i].denominazione_regione : i \in inc}
        /\ \A j, k \in 1..Len(rows) : rows[j][1] = rows[k][1] => j = k
        /\ \A k \in 1..Len(rows) :
             rows[k][2] =
               SumOver({i \in inc : call.df[i].denominazione_regione = rows[k][1]}, call.df)
        /\ SumRows(rows) = SumOver(inc, call.df)

\* Two records of one region summed, one of them non-numeric, a record on the
\* last day of the range kept and one outside the range dropped
C7_Witness ==
  /\ call.pc = "processed"
  /\ Len(call.df) = 3
  /\ analyzer.date_start = 1 /\ analyzer.date_end = 1
  /\ call.df[1] = [denominazione_regione |-> 1, totale_casi |-> 1, data |-> 2 * TicksPerDay - 1]
  /\ call.df[2] = [denominazione_regione |-> 1, totale_casi |-> NonNumeric, data |-> TicksPerDay]
  /\ call.df[3] = [denominazione_regione |-> 2, totale_casi |-> 1, data |-> 2 * TicksPerDay]
  /\ analyzer.regions_data.rows = <<<<1, 1>>>>

\* The range as the report names it: one date, or start -> end
RangeText(date_start, date_end) ==
  IF date_start = date_end THEN <<date_start>> ELSE <<date_start, date_end>>

\* C8: the first line print_report prints, the header of a non-empty report
\* or the line of an empty one, names the resolved range: one date when
\* start = end, start -> end otherwise.
C8_ReportNamesRange ==
  (call.pc = "printed" /\ analyzer.date_start # None /\ analyzer.date_end # None) =>
    call.stdout[1].args = RangeText(analyzer.date_start, analyzer.date_end)

MainEndedWith(msgs) ==
  main.pc = "exited" /\ main.stdout # <<>> /\ Last(main.stdout).kind \in msgs

\* C9 as claimed: a command line run that ends in a malformed date, an
\* inverted range or a fetch or load failure exits with a non-zero status
\* after printing the error.
C9_ErrorsExitNonZero ==
  MainEndedWith(ValidationErrors \cup FetchFailures \cup LoadFailures) => main.status # 0

\* C9 as amended: a run that ends in a malformed date or an inverted range
\* prints the error and exits with status 1 before any fetch; a run whose
\* fetch or load reports a failure prints the error and ends with status 0.
C9_ValidationExitsOneFailureReturns ==
  /\ MainEndedWith(ValidationErrors) => (main.status = 1 /\ ~MainFetched)
  /\ MainEndedWith(FetchFailures \cup LoadFailures) =>
       (main.status = 0 /\ main.success = "False")

\* A run stopped by the inverted range of its two flags
C9_Witness ==
  /\ MainEndedWith({"Error: The date_start is greater than date_end"})
  /\ main.status = 1
  /\ strptime(main.args.date_start) > strptime(main.args.date_end)

\* A request whose date strptime rejects
Malformed(h) ==
  \/ Truthy(h.date_start) /\ RaisesValueError(h.date_start)
  \/ Truthy(h.date_end) /\ RaisesValueError(h.date_end)

\* A request that is about to fetch has put its own range into the analyzer
C10_RangeIsOwn ==
  \A w \in Workers :
    LET h == handlers[w] IN
      /\ h.pc \in {"l229", "l74", "l77", "l81"} =>
           <<analyzer.date_start, analyzer.date_end>> \in OwnRanges(h)
      /\ (h.pc = "done" /\ Malformed(h)) =>
           /\ h.response.status = 400
           /\ h.response.body.error \in ValidationErrors
           /\ h.success = "unset"

\* While a request with a malformed date is handled the analyzer stays as it is
C10_RejectedLeavesAnalyzer ==
  (\E w \in Workers : handlers[w].pc # "idle" /\ Malformed(handlers[w])) =>
    analyzer' = analyzer

\* C10: with requests handled one at a time on the shared analyzer (handed
\* over by a finished command line run), a request that reaches fetch_data
\* has assigned both date_start and date_end itself, so its range comes from
\* its parameters and the current date only; a request rejected for a
\* malformed date leaves the analyzer's range and regions_data unchanged.
C10_SequentialRequestsOwnRange ==
  [](C10_RangeIsOwn) /\ [][C10_RejectedLeavesAnalyzer]_vars

\* A second request without dates, arrived on day 2, about to fetch while the
\* analyzer still holds a result for day 1
C10_Witness ==
  /\ nreq = 2
  /\ \E w \in Workers :
       /\ handlers[w].pc = "l229"
       /\ ~Truthy(handlers[w].date_start)
       /\ handlers[w].t0 = 2
  /\ analyzer.date_start = 2 /\ analyzer.date_end = 2
  /\ analyzer.regions_data.rows = <<<<1, 1>>>>

====
